---- MODULE Spec2Model ----
(***************************************************************************)
(* The inbound WhatsApp webhook of landlord-ai, in its six iterations      *)
(* (three in src/server.js, one each in src/unnamed/part_000..part_002):   *)
(* phone resolution, reply generation with the keyword fallback, the       *)
(* Message insert, the escalation to the landlord, the synchronous reply   *)
(* and the detached follow-up timer.                                       *)
(***************************************************************************)
EXTENDS Integers, Sequences, FiniteSets, TLC

(***************************************************************************)
(* JavaScript values are records with one field naming the type, so that   *)
(* "false" (a string) and false (a boolean) stay different values.         *)
(***************************************************************************)
undefined == [undef |-> TRUE]
null == [nul |-> TRUE]
Bool(b) == [bool |-> b]
Num(n) == [num |-> n]
Str(s) == [str |-> s]

IsStr(v) == DOMAIN v = {"str"}

\* ToBoolean of ECMAScript: undefined, null, false, 0 and "" are falsy.
Truthy(v) ==
  IF v = undefined \/ v = null THEN FALSE
  ELSE IF DOMAIN v = {"bool"} THEN v.bool
  ELSE IF DOMAIN v = {"num"} THEN v.num # 0
  ELSE IF IsStr(v) THEN v.str # ""
  ELSE TRUE

(***************************************************************************)
(* String.prototype operations used by the handlers, on TLA+ strings.      *)
(***************************************************************************)
\* s.includes(sub)
Includes(s, sub) ==
  \E t \in {s}, p \in {sub} :
     \E i \in 1..(Len(t) - Len(p) + 1) : SubSeq(t, i, i + Len(p) - 1) = p

\* s.replace(pat, rep) with a string pattern: the first occurrence only.
ReplaceFirst(s, pat, rep) ==
  IF ~Includes(s, pat) THEN s
  ELSE LET hits == {i \in 1..(Len(s) - Len(pat) + 1) :
                      SubSeq(s, i, i + Len(pat) - 1) = pat}
           i == CHOOSE k \in hits : \A j \in hits : k <= j
       IN SubSeq(s, 1, i - 1) \o rep \o SubSeq(s, i + Len(pat), Len(s))

StartsWith(s, pre) == Len(s) >= Len(pre) /\ SubSeq(s, 1, Len(pre)) = pre

\* s.replace(/^\+?52/, '')
StripCountryCode(s) ==
  IF StartsWith(s, "+52") THEN SubSeq(s, 4, Len(s))
  ELSE IF StartsWith(s, "52") THEN SubSeq(s, 3, Len(s))
  ELSE s

Digits == {"0", "1", "2", "3", "4", "5", "6", "7", "8", "9"}
Whitespace == {" ", "\t", "\n"}

\* s with every character of the set drop removed (a /[...]/g replace by '')
Without(s, drop) ==
  LET rest[t \in STRING] ==
        IF t = "" THEN ""
        ELSE (IF SubSeq(t, 1, 1) \in drop THEN "" ELSE SubSeq(t, 1, 1))
               \o rest[SubSeq(t, 2, Len(t))]
  IN rest[s]

\* s with only the characters of the set keep
Only(s, keep) ==
  LET rest[t \in STRING] ==
        IF t = "" THEN ""
        ELSE (IF SubSeq(t, 1, 1) \in keep THEN SubSeq(t, 1, 1) ELSE "")
               \o rest[SubSeq(t, 2, Len(t))]
  IN rest[s]

\* s.replace(/\D/g, '')
DigitsOnly(s) == Only(s, Digits)

\* s.replace(/\s+/g, '')
StripSpaces(s) == Without(s, Whitespace)

UpperChars == "ABCDEFGHIJKLMNOPQRSTUVWXYZÁÉÍÓÚÑ"
LowerChars == "abcdefghijklmnopqrstuvwxyzáéíóúñ"

\* the lower-case letter of each upper-case letter
LowerOf ==
  [c \in {SubSeq(UpperChars, i, i) : i \in 1..Len(UpperChars)} |->
     LET i == CHOOSE k \in 1..Len(UpperChars) : SubSeq(UpperChars, k, k) = c
     IN SubSeq(LowerChars, i, i)]

LowerChar(c) == IF c \in DOMAIN LowerOf THEN LowerOf[c] ELSE c

\* s.toLowerCase()
ToLowerCase(s) ==
  LET lower[t \in STRING] ==
        IF t = "" THEN ""
        ELSE LowerChar(SubSeq(t, 1, 1)) \o lower[SubSeq(t, 2, Len(t))]
  IN lower[s]

(***************************************************************************)
(* The six iterations of the webhook handler.                              *)
(***************************************************************************)
Variants == {"bilingual", "second", "third", "part_000", "part_001", "part_002"}

\* the iterations with conversation history and the delayed follow-up
WithFollowUp == {"bilingual", "third"}
\* the iterations whose reply generation is the function generateAIResponse
WithGenerateFn == {"part_000", "part_002"}

(***************************************************************************)
(* The Tenant Directory: tenants joined with their property.               *)
(***************************************************************************)
Property(addr, rent, day, lphone) ==
  [address |-> addr, monthly_rent |-> rent, rent_due_day |-> day,
   landlord_phone |-> lphone]

Directory ==
  { [id |-> 1, name |-> "Ana", phone |-> "+525511",
     properties |-> Property("Av. Reforma 10", 15000, 5, Str("+525599"))],
    [id |-> 2, name |-> "Luis", phone |-> "5522",
     properties |-> Property("Calle Sur 2", 9000, 1, null)],
    [id |-> 3, name |-> "Eva", phone |-> "+525533", properties |-> null],
    \* two rows with one phone, and the same number stored with its country code
    [id |-> 4, name |-> "Paz", phone |-> "5544",
     properties |-> Property("Calle Luna 4", 7000, 3, null)],
    [id |-> 5, name |-> "Paz", phone |-> "5544",
     properties |-> Property("Calle Luna 4", 7000, 3, null)],
    [id |-> 6, name |-> "Rui", phone |-> "+525544",
     properties |-> Property("Calle Sol 6", 8000, 2, Str("+525598"))] }

NoTenant == [id |-> 0, name |-> "", phone |-> "", properties |-> null]

\* a lookup that answers with some row whatever the phone asked for
Single_AnyRow(dir, p) ==
  [data |-> CHOOSE t \in dir : \A u \in dir : t.id <= u.id, error |-> FALSE]

\* a lookup that answers with the first of several matching rows
Single_FirstOfMany(dir, p) ==
  LET rows == {t \in dir : t.phone = p}
  IN IF rows # {}
     THEN [data |-> CHOOSE t \in rows : \A u \in rows : t.id <= u.id, error |-> FALSE]
     ELSE [data |-> NoTenant, error |-> TRUE]

\* .from('tenants').select('*, properties (*)').eq('phone', p).single():
\* data is the row when exactly one row matches, otherwise null with an error.
Single(dir, p) ==
  LET rows == {t \in dir : t.phone = p}
  IN IF Cardinality(rows) = 1
     THEN [data |-> CHOOSE t \in rows : TRUE, error |-> FALSE]
     ELSE [data |-> NoTenant, error |-> TRUE]

\* what a directory call can do: answer, answer with an error value, or throw
DbOutcomes == {"ok", "error", "throw"}
\* what an outbound send can do
SendOutcomes == {"ok", "throw"}

(***************************************************************************)
(* Phone Resolver: the sender identity and the candidates tried in turn.   *)
(***************************************************************************)
\* req.body.From?.replace('whatsapp:', '')  (part_000: ... || rawFrom)
ExtractPhone(v, from) ==
  IF ~IsStr(from) THEN from
  ELSE LET stripped == ReplaceFirst(from.str, "whatsapp:", "")
       IN IF v = "part_000" /\ stripped = "" THEN from ELSE Str(stripped)

PhoneVariations(v, phone) ==
  LET three == << phone,
                  ReplaceFirst(phone, "+52", ""),
                  "+52" \o StripCountryCode(phone) >>
  IN CASE v \in {"bilingual", "third"} ->
            three \o << DigitsOnly(phone), "+" \o DigitsOnly(phone) >>
       [] v \in {"second", "part_001"} -> three
       [] v = "part_000" -> three \o << StripSpaces(phone) >>
       [] v = "part_002" -> << phone >>

(***************************************************************************)
(* Fixed reply texts.                                                      *)
(***************************************************************************)
ValidationReply(v) ==
  CASE v \in {"bilingual", "third"} -> "Error: missing message or phone number"
    [] v \in {"second", "part_001"} -> "Error"
    [] v = "part_000" -> "Error: datos incompletos"

UnknownReply(v) ==
  CASE v \in {"bilingual", "third"} ->
         "Sorry, I can't find your number in our system. Please contact your landlord."
    [] v \in {"second", "part_001"} -> "Lo siento, no reconozco este número."
    [] OTHER ->
         "Lo siento, no reconozco este número. Por favor contacta a tu casero directamente."

ApologyReply(v) ==
  CASE v \in {"bilingual", "third"} ->
         "Sorry, there was an error. Please try again in a moment."
    [] v \in {"second", "part_001"} -> "Error."
    [] OTHER -> "Disculpa, hubo un error. Por favor intenta de nuevo."

(***************************************************************************)
(* Reply Generator: the completion of the generative service, its parse,   *)
(* and the keyword fallback of each iteration.                             *)
(***************************************************************************)
Result(m, c, na) == [message |-> m, category |-> c, needsAttention |-> na]

CompletionUrgent ==
  "{\"message\":\"Ya contacté al plomero!\",\"category\":\"URGENTE\",\"needsAttention\":true}"
CompletionPayment ==
  "{\"message\":\"El día 5! Son $15000.\",\"category\":\"PAGO\",\"needsAttention\":false}"
CompletionEnglish ==
  "{\"message\":\"I'll send someone.\",\"category\":\"MAINTENANCE\",\"needsAttention\":true}"
CompletionNoMessage == "{\"category\":\"PAGO\",\"needsAttention\":false}"
CompletionLoose ==
  "{\"message\":\"Claro!\",\"category\":\"OTRO\",\"needsAttention\":\"false\"}"
CompletionEmpty == "{\"message\":\"\",\"category\":\"CONSULTA\"}"
CompletionNull == "null"
CompletionProse == "Claro! Mascotas pequeñas no hay problema."

Completions ==
  { CompletionUrgent, CompletionPayment, CompletionEnglish, CompletionNoMessage,
    CompletionLoose, CompletionEmpty, CompletionNull, CompletionProse }

\* the generative call throws (network error, timeout, non-2xx answer)
AIThrows == "<throws>"
AIOutcomes == Completions \cup {AIThrows}

\* JSON.parse on the completions above: the parsed value, or a SyntaxError
JSONParse(text) ==
  CASE text = CompletionUrgent ->
         [ok |-> TRUE, value |-> Result(Str("Ya contacté al plomero!"),
                                        Str("URGENTE"), Bool(TRUE))]
    [] text = CompletionPayment ->
         [ok |-> TRUE, value |-> Result(Str("El día 5! Son $15000."),
                                        Str("PAGO"), Bool(FALSE))]
    [] text = CompletionEnglish ->
         [ok |-> TRUE, value |-> Result(Str("I'll send someone."),
                                        Str("MAINTENANCE"), Bool(TRUE))]
    [] text = CompletionNoMessage ->
         [ok |-> TRUE, value |-> Result(undefined, Str("PAGO"), Bool(FALSE))]
    [] text = CompletionLoose ->
         [ok |-> TRUE, value |-> Result(Str("Claro!"), Str("OTRO"), Str("false"))]
    [] text = CompletionEmpty ->
         [ok |-> TRUE, value |-> Result(Str(""), Str("CONSULTA"), undefined)]
    [] text = CompletionNull -> [ok |-> TRUE, value |-> null]
    [] OTHER -> [ok |-> FALSE, value |-> null]

AnyOf(s, words) == \E w \in words : Includes(s, w)

\* ${tenant.properties?.monthly_rent || dflt}
RentText(t, dflt) ==
  IF t.properties = null \/ t.properties.monthly_rent = 0 THEN dflt
  ELSE ToString(t.properties.monthly_rent)

\* ${tenant.properties?.rent_due_day || dflt}
DueDayText(t, dflt) ==
  IF t.properties = null \/ t.properties.rent_due_day = 0 THEN dflt
  ELSE ToString(t.properties.rent_due_day)

spanishIndicators ==
  {"hola", "gracias", "por favor", "sí", "no", "qué", "cómo", "dónde", "cuándo",
   "está", "hay", "tengo", "puedo", "necesito", "el", "la", "los", "las", "un", "una"}
englishIndicators ==
  {"hello", "hi", "thanks", "please", "yes", "what", "how", "where", "when",
   "there", "have", "can", "need", "the", "a", "an", "is", "are"}

\* language detection of the bilingual iteration: Spanish unless English scores higher
IsSpanish(message) ==
  LET messageToCheck == ToLowerCase(message)
      spanishScore == Cardinality({w \in spanishIndicators : Includes(messageToCheck, w)})
      englishScore == Cardinality({w \in englishIndicators : Includes(messageToCheck, w)})
  IN spanishScore >= englishScore

\* recentMessages.length > 0 && message.length < 30
IsFollowUp(message, recent) == Len(recent) > 0 /\ Len(message) < 30

FallbackSpanish(lower, t, isFollowUp, payment, urgent, repair, thanks) ==
  IF AnyOf(lower, payment) THEN
    Result(Str("Tu renta es de $" \o RentText(t, "30,000") \o " MXN y vence el día "
               \o DueDayText(t, "1") \o " de cada mes. ¿Te funciona bien ese día?"),
           Str("PAGO"), Bool(FALSE))
  ELSE IF AnyOf(lower, urgent) THEN
    Result(Str(IF isFollowUp
               THEN "Perfecto, ya tengo más info. Voy a contactar al técnico apropiado ahora mismo y te confirmo el horario lo antes posible."
               ELSE "Ay no, eso suena muy estresante. Me tomo esto en serio y me aseguraré de que alguien vaya lo antes posible. ¿Me puedes contar un poco más sobre qué está pasando?"),
           Str("URGENTE"), Bool(TRUE))
  ELSE IF AnyOf(lower, repair) THEN
    Result(Str(IF isFollowUp
               THEN "Entiendo. Con esa información voy a programar a alguien para que lo revise. Te confirmo en cuanto tenga el horario."
               ELSE "Lamento que no esté funcionando bien - es súper frustrante. Déjame ayudarte a arreglar esto. ¿Me puedes describir qué está pasando?"),
           Str("MANTENIMIENTO"), Bool(TRUE))
  ELSE IF AnyOf(lower, thanks) THEN
    Result(Str("¡De nada! Estoy aquí cuando necesites cualquier cosa."),
           Str("CONSULTA"), Bool(FALSE))
  ELSE IF isFollowUp THEN
    Result(Str("Perfecto, ya tengo esa información. Dame un momento para coordinarlo todo y te confirmo."),
           Str("CONSULTA"), Bool(TRUE))
  ELSE
    Result(Str("¡Hola! Recibí tu mensaje. ¿Me podrías contar un poco más para poder ayudarte?"),
           Str("CONSULTA"), Bool(FALSE))

FallbackEnglish(lower, t, isFollowUp) ==
  IF AnyOf(lower, {"payment", "pay", "rent", "how much", "due"}) THEN
    Result(Str("Your rent is $" \o RentText(t, "30,000") \o " MXN and it's due on day "
               \o DueDayText(t, "1") \o " of each month. Does that timing work for you?"),
           Str("PAYMENT"), Bool(FALSE))
  ELSE IF AnyOf(lower, {"leak", "emergency", "fire", "flooding", "urgent"}) THEN
    Result(Str(IF isFollowUp
               THEN "Perfect, I have more info now. I'll contact the appropriate technician right away and confirm the schedule as soon as possible."
               ELSE "Oh no, that sounds really stressful. I'm taking this seriously and will make sure someone gets out there as soon as possible. Can you tell me a bit more about what's happening?"),
           Str("URGENT"), Bool(TRUE))
  ELSE IF AnyOf(lower, {"broken", "not working", "fix", "repair"}) THEN
    Result(Str(IF isFollowUp
               THEN "Got it. With that information I'll schedule someone to check it out. I'll confirm the time as soon as I have it."
               ELSE "I'm sorry that's not working properly - that's really frustrating. Let me help you get this fixed. Can you describe what's going on?"),
           Str("MAINTENANCE"), Bool(TRUE))
  ELSE IF AnyOf(lower, {"thank", "thanks", "appreciate"}) THEN
    Result(Str("You're so welcome! I'm here whenever you need anything."),
           Str("INQUIRY"), Bool(FALSE))
  ELSE IF isFollowUp THEN
    Result(Str("Perfect, I have that information now. Give me a moment to coordinate everything and I'll confirm with you."),
           Str("INQUIRY"), Bool(TRUE))
  ELSE
    Result(Str("Hey! I got your message. Could you tell me a bit more so I can help you out?"),
           Str("INQUIRY"), Bool(FALSE))

FallbackBilingual(message, t, recent) ==
  IF IsSpanish(message)
  THEN FallbackSpanish(ToLowerCase(message), t, IsFollowUp(message, recent),
         {"pago", "pagar", "renta", "cuanto", "vence"},
         {"fuga", "emergencia", "incendio", "gas", "inundación"},
         {"roto", "no funciona", "arreglar", "reparar", "mantenimiento"},
         {"gracias"})
  ELSE FallbackEnglish(ToLowerCase(message), t, IsFollowUp(message, recent))

FallbackThird(message, t, recent) ==
  FallbackSpanish(ToLowerCase(message), t, IsFollowUp(message, recent),
    {"pago", "pagar", "renta", "cuanto", "payment", "pay", "rent", "how much", "due", "vence"},
    {"fuga", "emergencia", "incendio", "gas", "leak", "emergency", "fire", "flooding",
     "urgent", "inundación"},
    {"roto", "no funciona", "arreglar", "reparar", "mantenimiento", "broken", "fix", "repair"},
    {"gracias", "thank", "thanks", "appreciate"})

FallbackSecond(message, t) ==
  LET lower == ToLowerCase(message)
  IN IF AnyOf(lower, {"pago", "pagar", "renta", "cuanto"}) THEN
       Result(Str("Hola! Tu renta es de $" \o RentText(t, "N/A") \o " y vence el día "
                  \o DueDayText(t, "N/A") \o " de cada mes. ¿Necesitas los datos de transferencia?"),
              Str("PAGO"), Bool(FALSE))
     ELSE IF AnyOf(lower, {"fuga", "emergencia", "incendio"}) THEN
       Result(Str("Ya le avisé a tu casero sobre esto. Te contactará lo antes posible."),
              Str("URGENTE"), Bool(TRUE))
     ELSE IF AnyOf(lower, {"mascota", "perro", "gato"}) THEN
       Result(Str("Déjame preguntarle a tu casero sobre las mascotas y te confirmo!"),
              Str("CONSULTA"), Bool(TRUE))
     ELSE
       Result(Str("Recibí tu mensaje, déjame verificar y te respondo en breve."),
              Str("CONSULTA"), Bool(TRUE))

FallbackPart001(message, t) ==
  LET lower == ToLowerCase(message)
  IN IF AnyOf(lower, {"pago", "pagar", "renta", "cuanto"}) THEN
       Result(Str("El día " \o DueDayText(t, "1") \o "! Son $" \o RentText(t, "30,000")
                  \o " MXN."),
              Str("PAGO"), Bool(FALSE))
     ELSE IF AnyOf(lower, {"fuga", "emergencia", "incendio"}) THEN
       Result(Str("Ok, ya le avisé! Te contacta en breve."), Str("URGENTE"), Bool(TRUE))
     ELSE IF AnyOf(lower, {"mascota", "perro", "gato"}) THEN
       Result(Str("Claro! Mascotas pequeñas están bien. Ya está aprobado."),
              Str("CONSULTA"), Bool(FALSE))
     ELSE IF AnyOf(lower, {"reparar", "arreglar", "roto", "no funciona"}) THEN
       Result(Str("Ya le avisé al técnico, te contacta hoy o mañana!"),
              Str("MANTENIMIENTO"), Bool(TRUE))
     ELSE IF AnyOf(lower, {"fumar", "cigarro"}) THEN
       Result(Str("No dentro del depa, pero en balcón o afuera sí!"),
              Str("CONSULTA"), Bool(FALSE))
     ELSE IF AnyOf(lower, {"ruido", "fiesta", "música"}) THEN
       Result(Str("Todo tranqui hasta las 10pm entre semana, fines 11pm. Avisa a vecinos si hay algo especial!"),
              Str("CONSULTA"), Bool(FALSE))
     ELSE
       Result(Str("Todo bien! Cualquier cosa me avisas."), Str("CONSULTA"), Bool(FALSE))

FallbackPart000(message, t) ==
  LET lowerMessage == ToLowerCase(message)
  IN IF AnyOf(lowerMessage, {"fuga", "emergencia"}) THEN
       \* (the text starts with an emoji in the source, left out here)
       Result(Str("He notificado a tu casero de inmediato sobre esta emergencia."),
              Str("URGENTE"), Bool(TRUE))
     ELSE IF AnyOf(lowerMessage, {"pago", "renta"}) THEN
       Result(Str("Tu renta es de $" \o RentText(t, "N/A") \o " MXN y vence el día "
                  \o DueDayText(t, "N/A") \o "."),
              Str("PAGO"), Bool(FALSE))
     ELSE
       Result(Str("Recibí tu mensaje. Te respondo en breve."), Str("CONSULTA"), Bool(TRUE))

\* the keyword fallback of iteration v (part_002 has none)
Fallback(v, message, t, recent) ==
  CASE v = "bilingual" -> FallbackBilingual(message, t, recent)
    [] v = "third" -> FallbackThird(message, t, recent)
    [] v = "second" -> FallbackSecond(message, t)
    [] v = "part_001" -> FallbackPart001(message, t)
    [] v = "part_000" -> FallbackPart000(message, t)

\* let aiResponse;
NoResult == Result(undefined, undefined, undefined)

\* let aiReply = ...; let needsAttention = true; let category = ...
Defaults(v, message) ==
  CASE v = "bilingual" ->
         IF IsSpanish(message.str)
         THEN Result(Str("¡Hola! Recibí tu mensaje y lo estoy revisando. Te respondo en un momento."),
                     Str("CONSULTA"), Bool(TRUE))
         ELSE Result(Str("Hey! I got your message and I'm looking into it. I'll get back to you in just a moment."),
                     Str("INQUIRY"), Bool(TRUE))
    [] v = "third" ->
         Result(Str("¡Hola! Recibí tu mensaje y lo estoy revisando. Te respondo en un momento."),
                Str("CONSULTA"), Bool(TRUE))
    [] v \in {"second", "part_001"} ->
         Result(Str("Recibí tu mensaje."), Str("CONSULTA"), Bool(TRUE))
    [] OTHER -> NoResult

\* The try block around the generative call: does it end in an exception?
\*   every iteration: the call throws, JSON.parse throws, or a property of the
\*                    parsed value null is read (or, in part_000, written);
\*   bilingual/third: aiReply.substring(0, 50) on a message that is no string.
TryThrows(v, ai) ==
  \/ ai = AIThrows
  \/ ~JSONParse(ai).ok
  \/ JSONParse(ai).value = null
  \/ v \in WithFollowUp /\ ~IsStr(JSONParse(ai).value.message)

\* the three values when the try block ends normally
Parsed(v, ai) ==
  LET response == JSONParse(ai).value
  IN IF v = "part_000"
     \* response.needsAttention = response.needsAttention === true
     THEN [response EXCEPT !.needsAttention = Bool(response.needsAttention = Bool(TRUE))]
     ELSE response

\* a fallback that keeps the category read from the completion before the
\* try block threw
Generation_KeepsParsedCategory(v, ai, message, t, recent) ==
  IF v = "part_002" THEN
    IF t.properties = null
    THEN [threw |-> TRUE, called |-> FALSE, source |-> "none", result |-> NoResult]
    ELSE IF TryThrows(v, ai)
    THEN [threw |-> TRUE, called |-> TRUE, source |-> "none", result |-> NoResult]
    ELSE [threw |-> FALSE, called |-> TRUE, source |-> "generated", result |-> Parsed(v, ai)]
  ELSE IF TryThrows(v, ai)
  THEN [threw |-> FALSE, called |-> TRUE, source |-> "fallback",
        result |-> IF ai # AIThrows /\ JSONParse(ai).ok /\ JSONParse(ai).value # null
                   THEN [Fallback(v, message.str, t, recent)
                           EXCEPT !.category = JSONParse(ai).value.category]
                   ELSE Fallback(v, message.str, t, recent)]
  ELSE [threw |-> FALSE, called |-> TRUE, source |-> "generated", result |-> Parsed(v, ai)]

\* The "Generating Reply" step of iteration v for the outcome ai of the call:
\* threw   the exception leaves the step (to the handler's outer catch),
\* called  the generative call was made,
\* source  which of the two tiers produced the result.
Generation(v, ai, message, t, recent) ==
  IF v = "part_002" THEN
    \* generateAIResponse reads property.address before the call, has no
    \* try/catch, and the handler reads aiResponse.message of what it returns
    IF t.properties = null
    THEN [threw |-> TRUE, called |-> FALSE, source |-> "none", result |-> NoResult]
    ELSE IF TryThrows(v, ai)
    THEN [threw |-> TRUE, called |-> TRUE, source |-> "none", result |-> NoResult]
    ELSE [threw |-> FALSE, called |-> TRUE, source |-> "generated", result |-> Parsed(v, ai)]
  ELSE IF TryThrows(v, ai)
  THEN [threw |-> FALSE, called |-> TRUE, source |-> "fallback",
        result |-> Fallback(v, message.str, t, recent)]
  ELSE [threw |-> FALSE, called |-> TRUE, source |-> "generated", result |-> Parsed(v, ai)]

(***************************************************************************)
(* Messages table and the conversation history.                            *)
(***************************************************************************)
HistoryLimit == 10

Row(tid, dir, body, cat, reply, na) ==
  [tenant_id |-> tid, direction |-> dir, message_body |-> body, category |-> cat,
   ai_response |-> reply, needs_landlord_attention |-> na]

\* a history of the first rows of the tenant instead of the last
RecentMessages_Oldest(rows, tid) ==
  LET own == SelectSeq(rows, LAMBDA m : m.tenant_id = tid)
  IN IF Len(own) <= HistoryLimit THEN own ELSE SubSeq(own, 1, HistoryLimit)

\* .eq('tenant_id', id).order('created_at', {ascending: false}).limit(10), reversed
RecentMessages(rows, tid) ==
  LET own == SelectSeq(rows, LAMBDA m : m.tenant_id = tid)
  IN IF Len(own) <= HistoryLimit THEN own
     ELSE SubSeq(own, Len(own) - HistoryLimit + 1, Len(own))

\* the texts around the transcript: English in the bilingual handler, Spanish in the third
ContextLabels(v) ==
  IF v = "third"
  THEN [header |-> "\n\nHISTORIAL DE CONVERSACIÓN RECIENTE:\n",
        tenant |-> "Inquilino: ", you |-> "Tú: ",
        footer |-> "\n⚠ IMPORTANTE: Este es el contexto de la conversación previa. El mensaje actual del inquilino puede ser una continuación o seguimiento. Responde de manera coherente considerando lo que ya se ha discutido."]
  ELSE [header |-> "\n\nRECENT CONVERSATION HISTORY:\n",
        tenant |-> "Tenant: ", you |-> "You: ",
        footer |-> "\n⚠ IMPORTANT: This is the previous conversation context. The tenant's current message may be a continuation or follow-up. Respond coherently considering what has already been discussed."]

\* conversationContext: recentMessages.forEach(...) appending to the string
ConversationContext(v, recent) ==
  LET l == ContextLabels(v)
      acc[k \in 0..Len(recent)] ==
        IF k = 0 THEN l.header
        ELSE acc[k - 1] \o
             (IF recent[k].direction = "incoming"
              THEN l.tenant \o "\"" \o recent[k].message_body.str \o "\"\n" \o
                   (IF Truthy(recent[k].ai_response)
                    THEN l.you \o "\"" \o recent[k].ai_response.str \o "\"\n"
                    ELSE "")
              ELSE "")
  IN IF Len(recent) > 0 THEN acc[Len(recent)] \o l.footer ELSE ""

(***************************************************************************)
(* Escalation Notifier and the delayed follow-up.                          *)
(***************************************************************************)
\* Is twilioClient.messages.create called for the landlord?
\*   second/part_001: if (needsAttention && tenant.properties?.landlord_phone)
\*   part_000/part_002: if (aiResponse.needsAttention) notifyLandlord(...), which
\*                      reads property.address first (a TypeError on null)
\*   bilingual/third: the handler has no message to the landlord
SendsEscalation(v, na, t) ==
  CASE v \in {"second", "part_001"} ->
         Truthy(na) /\ t.properties # null /\ Truthy(t.properties.landlord_phone)
    [] v \in WithGenerateFn -> Truthy(na) /\ t.properties # null
    [] OTHER -> FALSE

\* Does an exception of the escalation send reach the handler's outer catch?
EscalationThrowEscapes(v) == v \in {"second", "part_001"}

FollowUpDelay == 10000

\* the text of the follow-up, '' when the category is neither URGENT nor MAINTENANCE
FollowUpMessage(message, category) ==
  LET lower == ToLowerCase(message)
      plumber == AnyOf(lower, {"fuga", "agua", "tubería", "baño", "leak", "water",
                               "pipe", "bathroom"})
      electrician == AnyOf(lower, {"luz", "eléctric", "light", "electric", "power"})
      professional == IF plumber THEN "the plumber"
                      ELSE IF electrician THEN "the electrician" ELSE "the technician"
      professionalName == IF ~plumber /\ electrician THEN "Miguel" ELSE "Rosendo"
      timeSlot == IF ~plumber /\ electrician THEN "2:00 pm" ELSE "10:00 am"
  IN IF category = Str("URGENT") \/ category = Str("MAINTENANCE")
     THEN "All set, I spoke with " \o professional \o ". He's available at " \o timeSlot
          \o " and will come by to check it out. His name is " \o professionalName
          \o ". Let me know how it goes, and don't worry, I'll take care of paying him."
     ELSE ""

(***************************************************************************)
(* State.                                                                  *)
(***************************************************************************)
MaxRequests == 1

Bodies ==
  { undefined, Str(""), Str("hay una fuga de agua"), Str("cuando pago la renta"),
    Str("gracias"), Str("ok"), Str("there is a leak") }

Froms ==
  { undefined, Str("whatsapp:"), Str("whatsapp:+525511"), Str("whatsapp:+525522"),
    Str("whatsapp:5533"), Str("whatsapp:+52-55-11"), Str("whatsapp:+52 55 22"),
    Str("whatsapp:+525577"), Str("whatsapp:5544") }

VARIABLES
  variant,    \* the iteration of the handler that is deployed
  tenants,    \* the tenants table, each row joined with its property
  messages,   \* the messages table, in creation order
  nreq,       \* number of webhook requests received so far
  rq,         \* the webhook request being handled
  timers,     \* follow-up timers set and not yet run to their end
  outbox,     \* follow-up sends attempted by the timers
  now,        \* the server's clock
  landlords,  \* the landlords table
  password_reset_tokens, \* the password_reset_tokens table, in creation order
  resetReqs,  \* the requests made to /reset-password
  properties, \* the properties table
  sent,       \* messages sent by the dashboard and by the daily recap
  reqSession, \* req.session of the landlord's browser
  parked      \* a webhook request that waits at an await while another one runs

\* what the routes of the web site and the daily recap work on
siteVars ==
  << now, landlords, password_reset_tokens, resetReqs, properties, sent, reqSession >>

vars == << variant, tenants, messages, nreq, rq, timers, outbox, siteVars, parked >>

Idle ==
  [ pc |-> "idle", n |-> 0, body |-> undefined, from |-> undefined, phone |-> undefined,
    cands |-> << >>, idx |-> 1, tenant |-> NoTenant, recent |-> << >>, context |-> "",
    aiReply |-> undefined, category |-> undefined, needsAttention |-> undefined,
    source |-> "none", replies |-> << >>, inserts |-> << >>, escalations |-> << >>,
    scheduled |-> 0,
    \* what the request has met so far
    lookups |-> 0,          \* point lookups issued
    lookupFailed |-> FALSE, \* a lookup answered with an error value
    listed |-> FALSE,       \* the select of all tenants was issued
    insertResult |-> "none",\* how the insert of the incoming row ended
    aiCalls |-> 0,          \* generative calls made
    ai |-> "none",          \* outcome of the generative call
    threw |-> "none" ]      \* the call whose exception reached the outer catch

\* bcrypt.hash(password, 10): a value that bcrypt.compare matches with password alone
Hash(password) == [bcrypt |-> password]

\* the landlords table: the owners of the properties of the directory
Landlords ==
  { [id |-> 1, email |-> "laura@example.com", name |-> "Laura", phone |-> "+525599",
     password_hash |-> Hash("inicial1")],
    [id |-> 2, email |-> "omar@example.com", name |-> "Omar", phone |-> "+525598",
     password_hash |-> Hash("inicial2")] }

\* requests to /reset-password that a run follows
MaxResets == 2

\* a request to /reset-password that was not made yet
NoReset ==
  [ kind |-> "none", pc |-> "idle", token |-> "", password |-> "",
    checkedAt |-> -1,     \* the clock when the token was looked up
    row |-> 0,            \* the row of password_reset_tokens the lookup returned
    changedAt |-> -1,     \* the clock when the password was updated
    response |-> "none" ]

\* a session that holds no landlordId
NoSession ==
  [ landlordId |-> 0,
    last |-> "none",            \* the last request to /signup, /login or /logout
    email |-> "", password |-> "" ] \* what that request presented

\* the site before any request to it
SiteInit ==
  /\ now = 0
  /\ landlords = Landlords
  /\ password_reset_tokens = << >>
  /\ resetReqs = [i \in 1..MaxResets |-> NoReset]
  /\ properties = {t.properties : t \in {u \in Directory : u.properties # null}}
  /\ sent = << >>
  /\ reqSession = NoSession

Init ==
  /\ variant \in Variants
  /\ tenants = Directory
  /\ messages = << >>
  /\ nreq = 0
  /\ rq = Idle
  /\ timers = << >>
  /\ outbox = << >>
  /\ SiteInit
  /\ parked = Idle

\* a reply sent with an error status
Send_ServerError(text) == [status |-> 500, type |-> "text/xml", text |-> text]

\* res.type('text/xml').send(twiml.toString()) with twiml.message(text)
Send(text) == [status |-> 200, type |-> "text/xml", text |-> text]

\* an exception inside the try block that nothing catches: the request ends
Thrown_Unhandled == "done"

\* an exception inside the try block that is swallowed: the request never ends
Thrown_Hangs == "hung"

\* where an exception thrown inside the handler's try block goes
Thrown == "catch"

(***************************************************************************)
(* The webhook handler, one action per step between two awaits.            *)
(***************************************************************************)
\* POST /webhook/whatsapp arrives
Receive(b, f) ==
  /\ rq.pc \in {"idle", "done"}
  /\ nreq < MaxRequests
  /\ nreq' = nreq + 1
  /\ rq' = [Idle EXCEPT !.pc = "received", !.n = nreq + 1, !.body = b, !.from = f]
  /\ UNCHANGED << variant, tenants, messages, timers, outbox, siteVars, parked >>

\* extraction of Body and From, and if (!message || !phone)
Validate ==
  /\ rq.pc = "received"
  /\ LET phone == ExtractPhone(variant, rq.from)
     IN IF variant = "part_002"
        THEN \* req.body.From.replace(...) and no validation
             IF ~IsStr(rq.from)
             THEN rq' = [rq EXCEPT !.pc = Thrown, !.threw = "From.replace"]
             ELSE rq' = [rq EXCEPT !.pc = "resolving", !.phone = phone,
                                    !.cands = PhoneVariations(variant, phone.str)]
        ELSE IF ~Truthy(rq.body) \/ ~Truthy(phone)
             THEN rq' = [rq EXCEPT !.pc = "done", !.phone = phone,
                                    !.replies = Append(@, Send(Str(ValidationReply(variant))))]
             ELSE rq' = [rq EXCEPT !.pc = "resolving", !.phone = phone,
                                    !.cands = PhoneVariations(variant, phone.str)]
  /\ UNCHANGED << variant, tenants, messages, nreq, timers, outbox, siteVars, parked >>

\* a handler that goes from the resolved tenant straight to the insert
Found_SkipsGeneration(t) ==
  LET d == Defaults(variant, rq.body)
  IN [rq EXCEPT !.tenant = t, !.pc = "persisting", !.lookups = @ + 1,
                !.aiReply = d.message, !.category = d.category,
                !.needsAttention = d.needsAttention]

\* after the tenant is found: the declarations before the generative call
Found(t) ==
  LET d == Defaults(variant, rq.body)
  IN [rq EXCEPT !.tenant = t,
                !.pc = IF variant \in WithFollowUp THEN "history" ELSE "generating",
                !.lookups = @ + 1,
                !.aiReply = d.message,
                !.category = d.category,
                !.needsAttention = d.needsAttention]

\* one point lookup of the loop over the candidates
Lookup(outcome) ==
  /\ rq.pc = "resolving"
  /\ LET res == IF outcome = "ok" THEN Single(tenants, rq.cands[rq.idx])
                ELSE [data |-> NoTenant, error |-> TRUE]
         failed == rq.lookupFailed \/ outcome = "error"
     IN IF outcome = "throw"
        THEN rq' = [rq EXCEPT !.pc = Thrown, !.lookups = @ + 1, !.threw = "lookup"]
        ELSE IF res.data # NoTenant
        THEN rq' = Found(res.data)
        ELSE IF rq.idx < Len(rq.cands)
        THEN rq' = [rq EXCEPT !.idx = @ + 1, !.lookups = @ + 1, !.lookupFailed = failed]
        ELSE rq' = [rq EXCEPT !.pc = "unknown", !.lookups = @ + 1,
                              !.lookupFailed = failed]
  /\ UNCHANGED << variant, tenants, messages, nreq, timers, outbox, siteVars, parked >>

\* if (!tenant): bilingual/third first list all tenants for the log
TenantUnknown(outcome) ==
  /\ rq.pc = "unknown"
  /\ IF variant \in WithFollowUp /\ outcome = "throw"
     THEN rq' = [rq EXCEPT !.pc = Thrown, !.threw = "list", !.listed = TRUE]
     ELSE rq' = [rq EXCEPT !.pc = "done", !.listed = variant \in WithFollowUp,
                           !.replies = Append(@, Send(Str(UnknownReply(variant))))]
  /\ UNCHANGED << variant, tenants, messages, nreq, timers, outbox, siteVars, parked >>

\* bilingual/third: the last messages of the tenant, oldest first
FetchHistory(outcome) ==
  /\ rq.pc = "history"
  /\ CASE outcome = "ok" ->
            rq' = [rq EXCEPT !.pc = "generating",
                             !.recent = RecentMessages(messages, rq.tenant.id),
                             !.context = ConversationContext(variant,
                                           RecentMessages(messages, rq.tenant.id))]
       [] outcome = "error" -> rq' = [rq EXCEPT !.pc = "generating", !.recent = << >>]
       [] outcome = "throw" -> rq' = [rq EXCEPT !.pc = Thrown, !.threw = "history"]
  /\ UNCHANGED << variant, tenants, messages, nreq, timers, outbox, siteVars, parked >>

\* the generative call, the parse of its completion, and the fallback
Generate(ai) ==
  /\ rq.pc = "generating"
  /\ \E g \in {Generation(variant, ai, rq.body, rq.tenant, rq.recent)} :
        IF g.threw
        THEN rq' = [rq EXCEPT !.pc = Thrown, !.threw = "generate",
                              !.aiCalls = @ + (IF g.called THEN 1 ELSE 0),
                              !.ai = IF g.called THEN ai ELSE "none"]
        ELSE rq' = [rq EXCEPT !.pc = "persisting", !.aiCalls = @ + 1, !.ai = ai,
                              !.source = g.source,
                              !.aiReply = g.result.message,
                              !.category = g.result.category,
                              !.needsAttention = g.result.needsAttention]
  /\ UNCHANGED << variant, tenants, messages, nreq, timers, outbox, siteVars, parked >>

\* an error value of the insert treated like an exception
AfterInsert_ErrorSurfaces(v, outcome) ==
  IF outcome \in {"throw", "error"} THEN Thrown
  ELSE IF v \in WithFollowUp THEN "replying"
  ELSE "escalating"

\* where the handler goes after the insert: an error value is at most logged
AfterInsert(v, outcome) ==
  IF outcome = "throw" THEN Thrown
  ELSE IF v \in WithFollowUp THEN "replying"
  ELSE "escalating"

\* supabase.from('messages').insert({... direction: 'incoming' ...})
Persist(outcome) ==
  /\ rq.pc = "persisting"
  /\ LET row == Row(rq.tenant.id, "incoming", rq.body, rq.category, rq.aiReply,
                    rq.needsAttention)
     IN /\ rq' = [rq EXCEPT !.inserts = Append(@, row),
                            !.threw = IF outcome = "throw" THEN "insert" ELSE @,
                            !.insertResult = outcome,
                            !.pc = AfterInsert(variant, outcome)]
        /\ messages' = IF outcome = "ok" THEN Append(messages, row) ELSE messages
  /\ UNCHANGED << variant, tenants, nreq, timers, outbox, siteVars, parked >>

\* the message to the landlord is sent
Escalate(outcome) ==
  /\ rq.pc = "escalating"
  /\ SendsEscalation(variant, rq.needsAttention, rq.tenant)
  /\ rq' = [rq EXCEPT
              !.escalations = Append(@, [to |-> rq.tenant.properties.landlord_phone,
                                         result |-> outcome]),
              !.threw = IF outcome = "throw" /\ EscalationThrowEscapes(variant)
                        THEN "send" ELSE @,
              !.pc = IF outcome = "throw" /\ EscalationThrowEscapes(variant)
                     THEN Thrown ELSE "replying"]
  /\ UNCHANGED << variant, tenants, messages, nreq, timers, outbox, siteVars, parked >>

\* no message to the landlord is sent
NoEscalation ==
  /\ rq.pc = "escalating"
  /\ ~SendsEscalation(variant, rq.needsAttention, rq.tenant)
  /\ rq' = [rq EXCEPT !.pc = "replying"]
  /\ UNCHANGED << variant, tenants, messages, nreq, timers, outbox, siteVars, parked >>

\* twiml.message(aiReply); res.send(...); bilingual/third then set the timer
Reply ==
  /\ rq.pc = "replying"
  /\ LET follow == variant \in WithFollowUp /\ Truthy(rq.needsAttention)
     IN /\ rq' = [rq EXCEPT !.pc = "done", !.replies = Append(@, Send(rq.aiReply)),
                            !.scheduled = @ + (IF follow THEN 1 ELSE 0)]
        /\ timers' = IF follow
                     THEN Append(timers, [req |-> rq.n, stage |-> "set",
                                          message |-> rq.body.str,
                                          category |-> rq.category,
                                          phone |-> rq.phone.str,
                                          tenant_id |-> rq.tenant.id])
                     ELSE timers
  /\ UNCHANGED << variant, tenants, messages, nreq, outbox, siteVars, parked >>

\* the handler's outer catch
Catch ==
  /\ rq.pc = "catch"
  /\ rq' = [rq EXCEPT !.pc = "done",
                      !.replies = Append(@, Send(Str(ApologyReply(variant))))]
  /\ UNCHANGED << variant, tenants, messages, nreq, timers, outbox, siteVars, parked >>

RemoveAt(seq, i) == SubSeq(seq, 1, i - 1) \o SubSeq(seq, i + 1, Len(seq))

\* a timer that goes on to its insert after a send that failed
FollowUpSend_InsertsAnyway(i, outcome) ==
  /\ i \in 1..Len(timers)
  /\ timers[i].stage = "set"
  /\ outbox' = Append(outbox, [req |-> timers[i].req, to |-> timers[i].phone,
                               body |-> FollowUpMessage(timers[i].message,
                                                        timers[i].category),
                               result |-> outcome])
  /\ timers' = [timers EXCEPT ![i].stage = "sent"]
  /\ UNCHANGED << variant, tenants, messages, nreq, rq, siteVars, parked >>

\* the timer fires: the follow-up is composed and, unless empty, sent
FollowUpSend(i, outcome) ==
  /\ i \in 1..Len(timers)
  /\ timers[i].stage = "set"
  /\ LET text == FollowUpMessage(timers[i].message, timers[i].category)
     IN IF text = ""
        THEN /\ timers' = RemoveAt(timers, i)
             /\ outbox' = outbox
        ELSE /\ outbox' = Append(outbox, [req |-> timers[i].req, to |-> timers[i].phone,
                                          body |-> text, result |-> outcome])
             /\ timers' = IF outcome = "ok"
                          THEN [timers EXCEPT ![i].stage = "sent"]
                          ELSE RemoveAt(timers, i)
  /\ UNCHANGED << variant, tenants, messages, nreq, rq, siteVars, parked >>

\* after the send: the insert of the outgoing row
FollowUpInsert(i, outcome) ==
  /\ i \in 1..Len(timers)
  /\ timers[i].stage = "sent"
  /\ messages' =
       IF outcome = "ok"
       THEN Append(messages,
                   Row(timers[i].tenant_id, "outgoing",
                       Str(FollowUpMessage(timers[i].message, timers[i].category)),
                       timers[i].category, null, Bool(FALSE)))
       ELSE messages
  /\ timers' = RemoveAt(timers, i)
  /\ UNCHANGED << variant, tenants, nreq, rq, outbox, siteVars, parked >>

Next ==
  \/ \E b \in Bodies, f \in Froms : Receive(b, f)
  \/ Validate
  \/ \E o \in DbOutcomes : Lookup(o)
  \/ \E o \in DbOutcomes : TenantUnknown(o)
  \/ \E o \in DbOutcomes : FetchHistory(o)
  \/ \E ai \in AIOutcomes : Generate(ai)
  \/ \E o \in DbOutcomes : Persist(o)
  \/ \E o \in SendOutcomes : Escalate(o)
  \/ NoEscalation
  \/ Reply
  \/ Catch
  \/ \E i \in 1..MaxRequests, o \in SendOutcomes : FollowUpSend(i, o)
  \/ \E i \in 1..MaxRequests, o \in DbOutcomes : FollowUpInsert(i, o)

Spec == Init /\ [][Next]_vars

\* every step of the handler; Receive and the timers are not among them
HandlerStep ==
  \/ Validate
  \/ \E o \in DbOutcomes : Lookup(o)
  \/ \E o \in DbOutcomes : TenantUnknown(o)
  \/ \E o \in DbOutcomes : FetchHistory(o)
  \/ \E ai \in AIOutcomes : Generate(ai)
  \/ \E o \in DbOutcomes : Persist(o)
  \/ \E o \in SendOutcomes : Escalate(o)
  \/ NoEscalation
  \/ Reply
  \/ Catch

\* every external call eventually returns and the event loop resumes the handler
FairSpec == Spec /\ WF_vars(HandlerStep)

(***************************************************************************)
(* The keyword fallback on its own: the catch block of the generative call *)
(* applied to a message of a resolved tenant, with the history the handler *)
(* has fetched for that tenant.                                            *)
(***************************************************************************)
MaxHistory == 1

\* the iterations that have a keyword fallback
FallbackVariants == Variants \ {"part_002"}

ClassifierBodies ==
  { "hay una fuga de agua",
    "¿Cuándo se paga la renta?",
    "hay una fuga y no puedo pagar la renta",
    "gracias, pero hay un incendio",
    "huele a gas",
    "there is a gas leak",
    "the kitchen is flooded",
    "quiero pagar",
    "ok" }

ClassifierInit ==
  /\ variant \in FallbackVariants
  /\ tenants = Directory
  /\ messages = << >>
  /\ nreq = 0
  /\ rq = Idle
  /\ timers = << >>
  /\ outbox = << >>
  /\ SiteInit
  /\ parked = Idle

\* an earlier request of the tenant has stored its incoming row
StoreRow(t) ==
  /\ Len(messages) < MaxHistory
  /\ messages' = Append(messages, Row(t.id, "incoming", Str("hola"), Str("CONSULTA"),
                                      Str("Recibí tu mensaje."), Bool(FALSE)))
  /\ UNCHANGED << variant, tenants, nreq, rq, timers, outbox, siteVars, parked >>

\* the catch block of the generative call runs for message b of tenant t
Classify(b, t) ==
  /\ \E recent \in {IF variant \in WithFollowUp THEN RecentMessages(messages, t.id)
                     ELSE << >>} :
       \E r \in {Fallback(variant, b, t, recent)} :
          rq' = [Idle EXCEPT !.pc = "classified", !.body = Str(b), !.tenant = t,
                             !.recent = recent, !.source = "fallback",
                             !.aiReply = r.message, !.category = r.category,
                             !.needsAttention = r.needsAttention]
  /\ UNCHANGED << variant, tenants, messages, nreq, timers, outbox, siteVars, parked >>

ClassifierNext ==
  \/ \E t \in Directory : StoreRow(t)
  \/ \E b \in ClassifierBodies, t \in Directory : Classify(b, t)

ClassifierSpec == ClassifierInit /\ [][ClassifierNext]_vars

(***************************************************************************)
(* The password reset of src/routes/password-reset.js: the forgot-password *)
(* form creates a token, GET /reset-password shows the form for a token    *)
(* and POST /reset-password sets the new password, one action per step     *)
(* between two awaits. All six iterations mount these routes.              *)
(***************************************************************************)
\* the clock stops here
MaxTime == 2

\* tokens a run creates
MaxTokens == 1

\* expiresAt.setHours(expiresAt.getHours() + 1): the clock counts hours
TokenLifetime == 1

\* crypto.randomBytes(32).toString('hex'): a value no earlier call returned
TokenName(n) == IF n = 1 THEN "tok1" ELSE IF n = 2 THEN "tok2" ELSE "tok3"

\* the email typed in the forgot-password form
Emails == { "laura@example.com", "nadie@example.com" }

\* the token of the query string or of the hidden field
PresentedTokens == { "", "bogus" } \cup { TokenName(n) : n \in 1..MaxTokens }

\* password and confirm_password of the reset form
ResetForms ==
  { [password |-> "nueva123", confirm_password |-> "nueva123"],
    [password |-> "otra4567", confirm_password |-> "otra4567"],
    [password |-> "nueva123", confirm_password |-> "otra4567"],
    [password |-> "abc", confirm_password |-> "abc"] }

\* .eq('token', token).eq('used', false).gte('expires_at', new Date().toISOString())
ValidTokenRows(rows, token, at) ==
  { k \in 1..Len(rows) :
      rows[k].token = token /\ ~rows[k].used /\ rows[k].expires_at >= at }

\* ... .single(): the row when exactly one row matches, no row otherwise
TokenLookup(rows, token, at, outcome) ==
  LET hits == ValidTokenRows(rows, token, at)
  IN IF outcome = "ok" /\ Cardinality(hits) = 1 THEN CHOOSE k \in hits : TRUE ELSE 0

\* the first request slot not used yet
NextReset(i) == resetReqs[i].kind = "none" /\ \A j \in 1..(i - 1) : resetReqs[j].kind # "none"

\* time passes
Tick ==
  /\ now < MaxTime
  /\ now' = now + 1
  /\ UNCHANGED << variant, tenants, messages, nreq, rq, timers, outbox, landlords,
                  password_reset_tokens, resetReqs, properties, sent, parked, reqSession >>

\* POST /forgot-password: the result of the insert is not looked at
ForgotPassword(email, outcome) ==
  /\ LET found == {l \in landlords : l.email = email}
     IN IF found = {} \/ outcome # "ok"
        THEN UNCHANGED password_reset_tokens
        ELSE /\ Len(password_reset_tokens) < MaxTokens
             /\ password_reset_tokens' =
                  Append(password_reset_tokens,
                         [landlord_id |-> (CHOOSE l \in found : TRUE).id,
                          token |-> TokenName(Len(password_reset_tokens) + 1),
                          expires_at |-> now + TokenLifetime,
                          used |-> FALSE])
  /\ UNCHANGED << variant, tenants, messages, nreq, rq, timers, outbox, now, landlords,
                  resetReqs, properties, sent, parked, reqSession >>

\* GET /reset-password?token=...
GetResetPassword(i, token, outcome) ==
  /\ NextReset(i)
  /\ LET k == TokenLookup(password_reset_tokens, token, now, outcome)
     IN resetReqs' =
          [resetReqs EXCEPT ![i] =
             IF token = ""
             THEN [NoReset EXCEPT !.kind = "GET", !.pc = "done", !.response = "invalid"]
             ELSE [NoReset EXCEPT !.kind = "GET", !.pc = "done", !.token = token,
                                  !.checkedAt = now, !.row = k,
                                  !.response = IF outcome = "throw" THEN "error"
                                               ELSE IF k = 0 THEN "expired" ELSE "form"]]
  /\ UNCHANGED << variant, tenants, messages, nreq, rq, timers, outbox, now, landlords,
                  password_reset_tokens, properties, sent, parked, reqSession >>

\* POST /reset-password arrives: the two validations of the form
PostResetPassword(i, token, form) ==
  /\ NextReset(i)
  /\ resetReqs' =
       [resetReqs EXCEPT ![i] =
          IF form.password # form.confirm_password
          THEN [NoReset EXCEPT !.kind = "POST", !.pc = "done", !.token = token,
                               !.response = "mismatch"]
          ELSE IF Len(form.password) < 6
          THEN [NoReset EXCEPT !.kind = "POST", !.pc = "done", !.token = token,
                               !.response = "short"]
          ELSE [NoReset EXCEPT !.kind = "POST", !.pc = "verify", !.token = token,
                               !.password = form.password]]
  /\ UNCHANGED << variant, tenants, messages, nreq, rq, timers, outbox, now, landlords,
                  password_reset_tokens, properties, sent, parked, reqSession >>

\* the lookup of the token
VerifyToken(i, outcome) ==
  /\ resetReqs[i].pc = "verify"
  /\ LET k == TokenLookup(password_reset_tokens, resetReqs[i].token, now, outcome)
     IN resetReqs' =
          [resetReqs EXCEPT ![i] =
             IF outcome = "throw" THEN [@ EXCEPT !.pc = "done", !.response = "error"]
             ELSE IF k = 0
             THEN [@ EXCEPT !.pc = "done", !.checkedAt = now, !.response = "expired"]
             ELSE [@ EXCEPT !.pc = "update", !.checkedAt = now, !.row = k]]
  /\ UNCHANGED << variant, tenants, messages, nreq, rq, timers, outbox, now, landlords,
                  password_reset_tokens, properties, sent, parked, reqSession >>

\* bcrypt.hash and the update of the landlord: its result is not looked at
UpdatePassword(i, outcome) ==
  /\ resetReqs[i].pc = "update"
  /\ LET id == password_reset_tokens[resetReqs[i].row].landlord_id
     IN landlords' =
          IF outcome = "ok"
          THEN { IF l.id = id
                 THEN [l EXCEPT !.password_hash = Hash(resetReqs[i].password)]
                 ELSE l : l \in landlords }
          ELSE landlords
  /\ resetReqs' =
       [resetReqs EXCEPT ![i] =
          IF outcome = "throw" THEN [@ EXCEPT !.pc = "done", !.response = "error"]
          ELSE [@ EXCEPT !.pc = "mark",
                         !.changedAt = IF outcome = "ok" THEN now ELSE @]]
  /\ UNCHANGED << variant, tenants, messages, nreq, rq, timers, outbox, now,
                  password_reset_tokens, properties, sent, parked, reqSession >>

\* update({ used: true }).eq('token', token), its result not looked at, and the answer
MarkUsed(i, outcome) ==
  /\ resetReqs[i].pc = "mark"
  /\ password_reset_tokens' =
       IF outcome = "ok"
       THEN [k \in 1..Len(password_reset_tokens) |->
               IF password_reset_tokens[k].token = resetReqs[i].token
               THEN [password_reset_tokens[k] EXCEPT !.used = TRUE]
               ELSE password_reset_tokens[k]]
       ELSE password_reset_tokens
  /\ resetReqs' =
       [resetReqs EXCEPT ![i] =
          [@ EXCEPT !.pc = "done",
                    !.response = IF outcome = "throw" THEN "error" ELSE "success"]]
  /\ UNCHANGED << variant, tenants, messages, nreq, rq, timers, outbox, now, landlords,
                  properties, sent, parked, reqSession >>

ResetNext ==
  \/ Tick
  \/ \E e \in Emails, o \in DbOutcomes : ForgotPassword(e, o)
  \/ \E i \in 1..MaxResets, t \in PresentedTokens, o \in DbOutcomes :
        GetResetPassword(i, t, o)
  \/ \E i \in 1..MaxResets, t \in PresentedTokens, f \in ResetForms :
        PostResetPassword(i, t, f)
  \/ \E i \in 1..MaxResets, o \in DbOutcomes : VerifyToken(i, o)
  \/ \E i \in 1..MaxResets, o \in DbOutcomes : UpdatePassword(i, o)
  \/ \E i \in 1..MaxResets, o \in DbOutcomes : MarkUsed(i, o)

\* the routes are the same file in every iteration: one iteration is followed
ResetInit == Init /\ variant = "bilingual"

ResetSpec == ResetInit /\ [][ResetNext]_vars

(***************************************************************************)
(* The dashboard of src/routes/dashboard.js, mounted by all six            *)
(* iterations, and the daily recap that part_000 and part_002 schedule,    *)
(* next to the webhook. A run is shorter than the day the recap looks back *)
(* on, so every Message row is within it.                                  *)
(***************************************************************************)
\* requests to the dashboard and recaps that a run follows
MaxDashboard == 1

\* .limit(50)
DashboardLimit == 50

\* req.session.landlordId: 0 when nobody is logged in
Sessions == { 0, 1 }

\* the iterations that schedule sendDailyRecap
WithRecap == { "part_000", "part_002" }

\* parseInt / parseFloat of a string of decimal digits; NaN is written -1
ParseInt(s) ==
  LET DigitValue(c) == CHOOSE d \in 0..9 : ToString(d) = c
      value[t \in STRING] ==
        IF t = "" THEN 0
        ELSE 10 * value[SubSeq(t, 1, Len(t) - 1)] + DigitValue(SubSeq(t, Len(t), Len(t)))
  IN IF s = "" \/ Only(s, Digits) # s THEN -1 ELSE value[s]

\* the form of POST /dashboard/properties/add
PropertyForms ==
  { [address |-> "Calle Nueva 7", monthly_rent |-> "6000", rent_due_day |-> "10"] }

\* the form of POST /dashboard/tenants/add; property_id is written as the address
TenantForms ==
  { [name |-> "Noé", phone |-> "+525577", property_id |-> "Av. Reforma 10"] }

\* the form of POST /dashboard/reply
ReplyForms ==
  { [tenant_phone |-> "+525511", message |-> "El plomero llega a las 5."] }

\* the properties of a landlord: landlord_id and landlord_phone are written together
OwnProperties(l) == { p \in properties : p.landlord_phone = Str(l.phone) }

\* the tenants of the properties of a landlord
OwnTenants(l) == { t \in tenants : t.properties # null /\ t.properties \in OwnProperties(l) }

\* the Message rows of the tenants of a landlord
OwnMessages(l) ==
  LET ids == { t.id : t \in OwnTenants(l) }
  IN SelectSeq(messages, LAMBDA m : m.tenant_id \in ids)

\* the landlord of a session
SessionLandlord(session) == CHOOSE l \in landlords : l.id = session

\* a request to the dashboard or a recap can still be followed
DashboardOpen == Len(sent) < MaxDashboard

\* requireLogin: without a session every route redirects to /login
Redirected(route) == [route |-> route, status |-> 302, to |-> "/login"]

\* GET /dashboard
Dashboard(session, outcome) ==
  /\ DashboardOpen
  /\ sent' = Append(sent,
       IF session = 0 THEN Redirected("GET /dashboard")
       ELSE IF outcome = "throw"
       THEN [route |-> "GET /dashboard", status |-> 500, shown |-> 0]
       ELSE [route |-> "GET /dashboard", status |-> 200,
             shown |-> IF outcome = "error" THEN 0
                       ELSE IF Len(OwnMessages(SessionLandlord(session))) > DashboardLimit
                       THEN DashboardLimit
                       ELSE Len(OwnMessages(SessionLandlord(session)))])
  /\ UNCHANGED << variant, tenants, messages, nreq, rq, timers, outbox, now, landlords,
                  password_reset_tokens, resetReqs, properties, parked, reqSession >>

\* GET /dashboard/properties
DashboardProperties(session, outcome) ==
  /\ DashboardOpen
  /\ sent' = Append(sent,
       IF session = 0 THEN Redirected("GET /dashboard/properties")
       ELSE IF outcome = "throw"
       THEN [route |-> "GET /dashboard/properties", status |-> 500, shown |-> 0]
       ELSE [route |-> "GET /dashboard/properties", status |-> 200,
             shown |-> IF outcome = "error" THEN 0
                       ELSE Cardinality(OwnProperties(SessionLandlord(session)))])
  /\ UNCHANGED << variant, tenants, messages, nreq, rq, timers, outbox, now, landlords,
                  password_reset_tokens, resetReqs, properties, parked, reqSession >>

\* POST /dashboard/properties/add: the result of the insert is not looked at
AddProperty(session, form, outcome) ==
  /\ DashboardOpen
  /\ sent' = Append(sent,
       IF session = 0 THEN Redirected("POST /dashboard/properties/add")
       ELSE IF outcome = "throw"
       THEN [route |-> "POST /dashboard/properties/add", status |-> 500]
       ELSE [route |-> "POST /dashboard/properties/add", status |-> 302,
             to |-> "/dashboard/properties"])
  /\ properties' =
       IF session # 0 /\ outcome = "ok"
       THEN properties \cup
              { Property(form.address, ParseInt(form.monthly_rent),
                         ParseInt(form.rent_due_day),
                         Str(SessionLandlord(session).phone)) }
       ELSE properties
  /\ UNCHANGED << variant, tenants, messages, nreq, rq, timers, outbox, now, landlords,
                  password_reset_tokens, resetReqs, parked, reqSession >>

\* POST /dashboard/tenants/add: the result of the insert is not looked at
AddTenant(session, form, outcome) ==
  /\ DashboardOpen
  /\ sent' = Append(sent,
       IF session = 0 THEN Redirected("POST /dashboard/tenants/add")
       ELSE IF outcome = "throw"
       THEN [route |-> "POST /dashboard/tenants/add", status |-> 500]
       ELSE [route |-> "POST /dashboard/tenants/add", status |-> 302, to |-> "/dashboard"])
  /\ tenants' =
       IF session # 0 /\ outcome = "ok"
       THEN LET own == { p \in properties : p.address = form.property_id }
            IN tenants \cup
                 { [id |-> Cardinality(tenants) + 1, name |-> form.name,
                    phone |-> form.phone,
                    properties |-> IF own = {} THEN null ELSE CHOOSE p \in own : TRUE] }
       ELSE tenants
  /\ UNCHANGED << variant, messages, nreq, rq, timers, outbox, now, landlords,
                  password_reset_tokens, resetReqs, properties, parked, reqSession >>

\* a reply of the landlord that is also kept as a Message row
DashboardReply_StoresRow(session, form, outcome) ==
  /\ DashboardOpen
  /\ sent' = Append(sent, [route |-> "POST /dashboard/reply", status |-> 200,
                           to |-> "whatsapp:" \o form.tenant_phone,
                           body |-> form.message, success |-> TRUE])
  /\ messages' = Append(messages, Row(1, "outgoing", Str(form.message), null, null,
                                      Bool(FALSE)))
  /\ UNCHANGED << variant, tenants, nreq, rq, timers, outbox, now, landlords,
                  password_reset_tokens, resetReqs, properties, parked, reqSession >>

\* POST /dashboard/reply: the message goes out and nothing is stored
DashboardReply(session, form, outcome) ==
  /\ DashboardOpen
  /\ sent' = Append(sent,
       IF session = 0 THEN Redirected("POST /dashboard/reply")
       ELSE [route |-> "POST /dashboard/reply", status |-> 200,
             to |-> "whatsapp:" \o form.tenant_phone, body |-> form.message,
             success |-> outcome = "ok"])
  /\ UNCHANGED << variant, tenants, messages, nreq, rq, timers, outbox, now, landlords,
                  password_reset_tokens, resetReqs, properties, parked, reqSession >>

\* sendDailyRecap: one message to every landlord whose tenants have Message rows
DailyRecap(outcome) ==
  /\ DashboardOpen
  /\ variant \in WithRecap
  /\ sent' = Append(sent,
       [route |-> "recap",
        recaps |-> IF outcome = "throw" THEN {}
                   ELSE { [to |-> "whatsapp:" \o l.phone,
                           total |-> Len(OwnMessages(l)),
                           urgent |-> Len(SelectSeq(OwnMessages(l),
                                        LAMBDA m : Truthy(m.needs_landlord_attention)))] :
                          l \in { k \in landlords : Len(OwnMessages(k)) > 0 } }])
  /\ UNCHANGED << variant, tenants, messages, nreq, rq, timers, outbox, now, landlords,
                  password_reset_tokens, resetReqs, properties, parked, reqSession >>

SiteNext ==
  \/ Next
  \/ \E s \in Sessions, o \in DbOutcomes : Dashboard(s, o)
  \/ \E s \in Sessions, o \in DbOutcomes : DashboardProperties(s, o)
  \/ \E s \in Sessions, f \in PropertyForms, o \in DbOutcomes : AddProperty(s, f, o)
  \/ \E s \in Sessions, f \in TenantForms, o \in DbOutcomes : AddTenant(s, f, o)
  \/ \E s \in Sessions, f \in ReplyForms, o \in SendOutcomes : DashboardReply(s, f, o)
  \/ \E o \in SendOutcomes : DailyRecap(o)

SiteSpec == Init /\ [][SiteNext]_vars

(***************************************************************************)
(* Two webhook invocations at once. The handler's variables are locals of  *)
(* the invocation; the event loop runs one invocation up to its next await *)
(* and may then go on with the other one.                                  *)
(***************************************************************************)
\* invocations that a run lets overlap
MaxConcurrent == 2

ConcurrentBodies == { Str("hay una fuga de agua"), Str("cuando pago la renta") }

ConcurrentFroms ==
  { Str("whatsapp:+525511"), Str("whatsapp:5533"), Str("whatsapp:+525577") }

\* POST /webhook/whatsapp arrives while the invocation before it waits or has ended
Arrive(b, f) ==
  /\ nreq < MaxConcurrent
  /\ parked.pc \in {"idle", "done"}
  /\ nreq' = nreq + 1
  /\ parked' = rq
  /\ rq' = [Idle EXCEPT !.pc = "received", !.n = nreq + 1, !.body = b, !.from = f]
  /\ UNCHANGED << variant, tenants, messages, timers, outbox, siteVars >>

\* at an await the event loop goes on with the invocation that was waiting
Resume ==
  /\ parked.pc \notin {"idle", "done"}
  /\ rq' = parked
  /\ parked' = rq
  /\ UNCHANGED << variant, tenants, messages, nreq, timers, outbox, siteVars >>

ConcurrentNext ==
  \/ \E b \in ConcurrentBodies, f \in ConcurrentFroms : Arrive(b, f)
  \/ Resume
  \/ Validate
  \/ \E o \in DbOutcomes : Lookup(o)
  \/ \E o \in DbOutcomes : TenantUnknown(o)
  \/ \E o \in DbOutcomes : FetchHistory(o)
  \/ \E ai \in AIOutcomes : Generate(ai)
  \/ \E o \in DbOutcomes : Persist(o)
  \/ Reply
  \/ Catch

\* the iteration whose handler lists all tenants and reads the history; it has
\* no message to the landlord, so the escalation steps are not part of it
ConcurrentInit == Init /\ variant = "bilingual"

ConcurrentSpec == ConcurrentInit /\ [][ConcurrentNext]_vars

(***************************************************************************)
(* The conversation context on its own: the history query and the          *)
(* transcript of the bilingual and third handlers, over a messages table   *)
(* that holds rows of two tenants.                                         *)
(***************************************************************************)
\* rows the messages table holds at most
MaxRows == 11

\* a message of the tenant that was answered, a follow-up sent to the tenant,
\* and a message of another tenant that got the empty reply
RowKinds == { "answered", "follow-up", "other tenant" }

\* the k-th row of the table, with a text that names its place
StoredRow(kind, k) ==
  CASE kind = "answered" ->
         Row(1, "incoming", Str("m" \o ToString(k)), Str("CONSULTA"),
             Str("r" \o ToString(k)), Bool(FALSE))
    [] kind = "follow-up" ->
         Row(1, "outgoing", Str("f" \o ToString(k)), Str("URGENT"), null, Bool(FALSE))
    [] OTHER ->
         Row(2, "incoming", Str("o" \o ToString(k)), Str("OTRO"), Str(""), Bool(TRUE))

\* the handlers that read the history
ContextInit == Init /\ variant \in WithFollowUp

\* an earlier request or timer has stored a row
StoreHistory(kind) ==
  /\ rq.pc = "idle"
  /\ Len(messages) < MaxRows
  /\ messages' = Append(messages, StoredRow(kind, Len(messages) + 1))
  /\ UNCHANGED << variant, tenants, nreq, rq, timers, outbox, siteVars, parked >>

\* the history query and the transcript for a request of tenant t
BuildContext(t) ==
  /\ rq.pc = "idle"
  /\ \E recent \in {RecentMessages(messages, t.id)} :
        rq' = [Idle EXCEPT !.pc = "context", !.tenant = t, !.recent = recent,
                           !.context = ConversationContext(variant, recent)]
  /\ UNCHANGED << variant, tenants, messages, nreq, timers, outbox, siteVars, parked >>

ContextNext ==
  \/ \E kind \in RowKinds : StoreHistory(kind)
  \/ \E t \in {u \in Directory : u.id \in {1, 2}} : BuildContext(t)

ContextSpec == ContextInit /\ [][ContextNext]_vars

(***************************************************************************)
(* The session of src/routes/auth.js: signup and login put the landlord's  *)
(* id into req.session, logout destroys the session, and the routes of     *)
(* the dashboard run behind requireLogin with that session.                *)
(***************************************************************************)
\* the form of POST /signup
SignupForms ==
  { [email |-> "nora@example.com", password |-> "clave123", name |-> "Nora",
     phone |-> "+525597"],
    [email |-> "laura@example.com", password |-> "clave123", name |-> "Laura",
     phone |-> "+525599"] }

\* the form of POST /login
LoginForms ==
  { [email |-> "laura@example.com", password |-> "inicial1"],
    [email |-> "laura@example.com", password |-> "inicial2"],
    [email |-> "omar@example.com", password |-> "inicial2"],
    [email |-> "nora@example.com", password |-> "clave123"],
    [email |-> "nadie@example.com", password |-> "inicial1"] }

\* a comparison that every password passes
PasswordMatch_Always(password, hash) == TRUE

\* bcrypt.compare(password, landlord.password_hash)
PasswordMatch(password, hash) == hash = Hash(password)

\* POST /signup: the insert fails when the email is taken
Signup(form, outcome) ==
  LET ok == outcome = "ok" /\ \A l \in landlords : l.email # form.email
      id == Cardinality(landlords) + 1
  IN /\ landlords' =
          IF ok
          THEN landlords \cup { [id |-> id, email |-> form.email, name |-> form.name,
                                 phone |-> form.phone,
                                 password_hash |-> Hash(form.password)] }
          ELSE landlords
     /\ reqSession' =
          IF ok
          THEN [landlordId |-> id, last |-> "signup", email |-> form.email,
                password |-> form.password]
          ELSE [reqSession EXCEPT !.last = "failed signup", !.email = form.email,
                                  !.password = form.password]
     /\ UNCHANGED << variant, tenants, messages, nreq, rq, timers, outbox, now,
                     password_reset_tokens, resetReqs, properties, sent, parked >>

\* POST /login
Login(form, outcome) ==
  LET found == { l \in landlords : l.email = form.email }
      granted == /\ outcome = "ok"
                 /\ found # {}
                 /\ PasswordMatch(form.password, (CHOOSE l \in found : TRUE).password_hash)
  IN /\ reqSession' =
          IF granted
          THEN [landlordId |-> (CHOOSE l \in found : TRUE).id, last |-> "login",
                email |-> form.email, password |-> form.password]
          ELSE [reqSession EXCEPT !.last = "failed login", !.email = form.email,
                                  !.password = form.password]
     /\ UNCHANGED << variant, tenants, messages, nreq, rq, timers, outbox, now, landlords,
                     password_reset_tokens, resetReqs, properties, sent, parked >>

\* GET /logout: req.session.destroy()
Logout ==
  /\ reqSession' = [NoSession EXCEPT !.last = "logout"]
  /\ UNCHANGED << variant, tenants, messages, nreq, rq, timers, outbox, now, landlords,
                  password_reset_tokens, resetReqs, properties, sent, parked >>

AuthNext ==
  \/ \E f \in SignupForms, o \in DbOutcomes : Signup(f, o)
  \/ \E f \in LoginForms, o \in DbOutcomes : Login(f, o)
  \/ Logout
  \/ \E o \in DbOutcomes : Dashboard(reqSession.landlordId, o)
  \/ \E o \in DbOutcomes : DashboardProperties(reqSession.landlordId, o)
  \/ \E f \in PropertyForms, o \in DbOutcomes : AddProperty(reqSession.landlordId, f, o)
  \/ \E f \in TenantForms, o \in DbOutcomes : AddTenant(reqSession.landlordId, f, o)
  \/ \E f \in ReplyForms, o \in SendOutcomes : DashboardReply(reqSession.landlordId, f, o)

\* the routes are the same files in every iteration: one iteration is followed
AuthInit == Init /\ variant = "bilingual"

AuthSpec == AuthInit /\ [][AuthNext]_vars

(***************************************************************************)
(* Properties.                                                             *)
(***************************************************************************)
Responded == rq.pc = "done"

\* C1: every request is answered with exactly one synchronous reply: the
\* handler never sends a second one and never finishes without one, whatever
\* the inputs and whatever the external calls answer or throw.
C1_ExactlyOneReply ==
  /\ Len(rq.replies) <= 1
  /\ Responded => Len(rq.replies) = 1

\* a request that threw in the Message insert and was answered once
C1_Witness == Responded /\ rq.threw = "insert" /\ Len(rq.replies) = 1

\* C2: when every external call returns, every request received eventually
\* reaches Responded with its reply.
C2_EventuallyResponded ==
  (rq.pc = "received") ~> (Responded /\ Len(rq.replies) = 1)

\* a request that reached Responded through the escalation branch
C2_Witness == Responded /\ Len(rq.escalations) = 1 /\ Len(rq.replies) = 1

\* C3: when the send of the escalation throws, the tenant still gets the reply
\* generated for the message, and the escalation is attempted once only.
C3_EscalationFailureKeepsReply ==
  (Responded /\ rq.escalations # << >> /\ rq.escalations[1].result = "throw")
    => /\ rq.replies = << Send(rq.aiReply) >>
       /\ Len(rq.escalations) = 1

\* C4: for a request whose tenant was resolved and whose reply was produced
\* and persisted without an exception, a send to the landlord is attempted
\* exactly when needsAttention is true.
C4_EscalationIffNeedsAttention ==
  (Responded /\ rq.source # "none" /\ rq.threw \in {"none", "send"})
    => ((rq.needsAttention = Bool(TRUE)) <=> (Len(rq.escalations) = 1))

\* the generative call threw, or its completion is no JSON
GenerativeFailure == rq.ai # "none" /\ (rq.ai = AIThrows \/ ~JSONParse(rq.ai).ok)

\* C5: when the generative call fails and nothing else of the request throws,
\* the tenant receives the reply of the keyword fallback, never the apology,
\* and the row is persisted with the fallback's result.
C5_FailureGetsFallbackReply ==
  (Responded /\ GenerativeFailure /\ rq.threw \in {"none", "generate"})
    => /\ rq.source = "fallback"
       /\ rq.replies = << Send(rq.aiReply) >>
       /\ rq.inserts = << Row(rq.tenant.id, "incoming", rq.body, rq.category,
                              rq.aiReply, rq.needsAttention) >>

\* C6: the reply text sent to the tenant is a non-empty string, whatever the
\* generative service returns.
C6_ReplyNeverEmpty ==
  Responded => \A i \in 1..Len(rq.replies) :
                 IsStr(rq.replies[i].text) /\ rq.replies[i].text.str # ""

\* the replies that tell the tenant only that something went wrong
GenericErrorReplies(v) ==
  {Str(ApologyReply(v))} \cup (IF v = "part_002" THEN {} ELSE {Str(ValidationReply(v))})

\* C7: a request with a missing or empty Body or From is answered with the
\* generic error reply and causes no lookup, no generative call, no insert and
\* no escalation.
C7_ValidationShortCircuits ==
  (rq.pc # "idle" /\ (~Truthy(rq.body) \/ ~Truthy(rq.from)))
    => /\ rq.lookups = 0
       /\ rq.aiCalls = 0
       /\ rq.inserts = << >>
       /\ rq.escalations = << >>
       /\ Responded => /\ Len(rq.replies) = 1
                       /\ rq.replies[1].text \in GenericErrorReplies(variant)

\* the request passed validation and no candidate equals a stored phone
NoCandidateMatches ==
  /\ rq.cands # << >>
  /\ \A i \in 1..Len(rq.cands) : \A t \in tenants : t.phone # rq.cands[i]

NoTraceOfTenantWork ==
  /\ rq.inserts = << >>
  /\ rq.aiCalls = 0
  /\ rq.escalations = << >>
  /\ rq.scheduled = 0

\* C8 as stated: when no candidate matches a stored tenant the reply is the
\* fixed 'not recognized' text, and there is no insert, no generative call, no
\* escalation and no follow-up.
C8_UnknownSenderAsStated ==
  (Responded /\ NoCandidateMatches)
    => /\ rq.replies = << Send(Str(UnknownReply(variant))) >>
       /\ NoTraceOfTenantWork

\* C8 amended: when no candidate matches a stored tenant there is no insert,
\* no generative call, no escalation and no follow-up, and the reply is the
\* fixed 'not recognized' text unless a directory query of the request threw,
\* in which case it is the apology of the outer catch.
C8_UnknownSender ==
  NoCandidateMatches
    => /\ NoTraceOfTenantWork
       /\ rq.threw \in {"none", "lookup", "list"}
       /\ Responded =>
            rq.replies = << Send(Str(IF rq.threw = "none" THEN UnknownReply(variant)
                                     ELSE ApologyReply(variant))) >>

\* an unknown sender answered with the fixed text after all candidates were tried
C8_Witness ==
  /\ Responded /\ NoCandidateMatches /\ rq.threw = "none"
  /\ rq.lookups = Len(rq.cands) /\ Len(rq.cands) > 1
  /\ rq.replies = << Send(Str(UnknownReply(variant))) >>

\* C9: every request whose tenant was resolved attempts exactly one insert of
\* an incoming row with the body and the category, reply text and
\* needsAttention of the reply produced.
C9_OneIncomingRowPerResolved ==
  (Responded /\ rq.tenant # NoTenant)
    => rq.inserts = << Row(rq.tenant.id, "incoming", rq.body, rq.category,
                           rq.aiReply, rq.needsAttention) >>

\* the national number: digits only, without the country code 52
National(p) == StripCountryCode(DigitsOnly(p))

\* C10: when every lookup answers, a sender whose number is a variation of a
\* stored tenant's phone (country code or separators added or removed) is
\* resolved to that tenant, and a sender none of whose candidates matches is
\* reported unknown.
C10_ResolverFindsEveryVariation ==
  (Responded /\ rq.cands # << >> /\ ~rq.lookupFailed /\ rq.threw # "lookup")
    => /\ \A t \in tenants :
            National(t.phone) = National(rq.phone.str) => rq.tenant = t
       /\ NoCandidateMatches => rq.tenant = NoTenant

\* the candidate forms in the order the specification lists them
ListedCandidates(phone) ==
  << phone,
     ReplaceFirst(phone, "+52", ""),
     "+52" \o StripCountryCode(phone),
     DigitsOnly(phone),
     "+" \o DigitsOnly(phone) >>

\* the stored rows whose phone equals the candidate
Rows(p) == {t \in tenants : t.phone = p}

\* C11: the candidates are queried one by one in the listed order; a candidate
\* with zero rows or several rows is skipped; the first candidate with exactly
\* one row ends the loop, no later candidate is queried, and the tenant's
\* stored phone is that candidate.  The five listed forms are those of the
\* bilingual and third handlers.
C11_CandidatesInOrder ==
  (rq.cands # << >>)
    => /\ variant \in WithFollowUp => rq.cands = ListedCandidates(rq.phone.str)
       /\ rq.pc = "resolving" => rq.lookups = rq.idx - 1
       /\ rq.pc # "resolving" => rq.lookups = rq.idx
       /\ rq.tenant # NoTenant =>
            /\ rq.tenant.phone = rq.cands[rq.idx]
            /\ Rows(rq.cands[rq.idx]) = {rq.tenant}
       /\ (rq.tenant = NoTenant /\ rq.pc \in {"unknown", "done"} /\ rq.threw = "none")
            => rq.lookups = Len(rq.cands)
       /\ ~rq.lookupFailed =>
            \A j \in 1..(rq.idx - 1) : Cardinality(Rows(rq.cands[j])) # 1

\* the first two candidates have two rows each and are skipped, the third wins
C11_Witness ==
  /\ Responded /\ variant \in WithFollowUp
  /\ rq.tenant # NoTenant /\ rq.idx = 3 /\ rq.lookups = 3
  /\ Cardinality(Rows(rq.cands[1])) = 2
  /\ ~rq.lookupFailed

C13_ThrowGetsApology200 ==
  /\ \A i \in 1..Len(rq.replies) :
       rq.replies[i].status = 200 /\ rq.replies[i].type = "text/xml"
  /\ (Responded /\ rq.threw # "none")
       => /\ Len(rq.replies) = 1
          /\ rq.replies[1].text = Str(ApologyReply(variant))

\* the history query threw and the request was answered with the apology
C13_Witness ==
  /\ Responded /\ rq.threw = "history"
  /\ rq.replies = << [status |-> 200, type |-> "text/xml",
                      text |-> Str(ApologyReply(variant))] >>

Classified == rq.pc = "classified"

EmergencyTerms ==
  {"fuga", "emergencia", "incendio", "gas", "inundación", "leak", "fire", "flood"}

\* C14: on the fallback path a message with an emergency term is classified
\* URGENT/URGENTE with needsAttention true, whatever else it contains.
C14_EmergencyIsUrgent ==
  (Classified /\ AnyOf(ToLowerCase(rq.body.str), EmergencyTerms))
    => /\ rq.category \in {Str("URGENT"), Str("URGENTE")}
       /\ rq.needsAttention = Bool(TRUE)

PaymentTerms == {"pago", "pagar", "renta"}

\* C15: on the fallback path a message with a payment term, of a tenant with a
\* property, is classified PAYMENT/PAGO with needsAttention false, and the
\* reply contains the monthly rent and the due day of the property.
C15_PaymentQuotesRent ==
  (Classified /\ AnyOf(ToLowerCase(rq.body.str), PaymentTerms)
     /\ rq.tenant.properties # null)
    => /\ rq.category \in {Str("PAYMENT"), Str("PAGO")}
       /\ rq.needsAttention = Bool(FALSE)
       /\ Includes(rq.aiReply.str, ToString(rq.tenant.properties.monthly_rent))
       /\ Includes(rq.aiReply.str, ToString(rq.tenant.properties.rent_due_day))

\* C16: two invocations of the fallback with the same message and the same
\* tenant give the same reply text, category and needsAttention, whatever was
\* stored between them.
C16_FallbackIsPure ==
  [][ (Classified /\ rq'.pc = "classified"
         /\ rq'.body = rq.body /\ rq'.tenant = rq.tenant)
        => /\ rq'.aiReply = rq.aiReply
           /\ rq'.category = rq.category
           /\ rq'.needsAttention = rq.needsAttention ]_vars

\* request i is a POST /reset-password whose update of the password went through
ChangedPassword(i) == resetReqs[i].kind = "POST" /\ resetReqs[i].changedAt # -1

\* C17: a reset token is accepted by POST /reset-password exactly once: the
\* presentation that is answered with the success page has changed the password
\* and left the token used, and no two presentations of one token change the
\* password.
C17_TokenAcceptedOnce ==
  /\ \A i \in 1..MaxResets :
        (resetReqs[i].kind = "POST" /\ resetReqs[i].response = "success")
           => /\ ChangedPassword(i)
              /\ password_reset_tokens[resetReqs[i].row].used
  /\ \A i, j \in 1..MaxResets :
        (i # j /\ resetReqs[i].token = resetReqs[j].token)
           => ~(ChangedPassword(i) /\ ChangedPassword(j))

\* C18: a token is accepted only while now < expires_at: a GET or a POST whose
\* lookup returned the token's row made the lookup before expires_at, and a
\* password is changed only before expires_at.
C18_ExpiredTokenRejected ==
  \A i \in 1..MaxResets :
     resetReqs[i].row # 0
        => /\ resetReqs[i].checkedAt < password_reset_tokens[resetReqs[i].row].expires_at
           /\ resetReqs[i].changedAt < password_reset_tokens[resetReqs[i].row].expires_at

\* C19: Message rows are append-only: every step keeps the rows there are, in
\* place and unchanged, and a step that adds a row is the insert of the webhook
\* handler, adding one incoming row, or the insert of a follow-up timer, adding
\* one outgoing row.
C19_MessagesAppendOnly ==
  [][ /\ Len(messages') >= Len(messages)
      /\ SubSeq(messages', 1, Len(messages)) = messages
      /\ messages' # messages =>
           /\ Len(messages') = Len(messages) + 1
           /\ \/ /\ rq.pc = "persisting" /\ rq'.pc # "persisting"
                 /\ timers' = timers
                 /\ messages'[Len(messages')].direction = "incoming"
              \/ /\ rq' = rq
                 /\ \E i \in 1..Len(timers) :
                       timers[i].stage = "sent" /\ timers' = RemoveAt(timers, i)
                 /\ messages'[Len(messages')].direction = "outgoing" ]_vars

\* an incoming and an outgoing row are stored and the dashboard has then shown
\* both to the landlord
C19_Witness ==
  /\ Len(messages) = 2
  /\ messages[1].direction = "incoming"
  /\ messages[2].direction = "outgoing"
  /\ Len(sent) = 1
  /\ sent[1].route = "GET /dashboard"
  /\ sent[1].status = 200
  /\ sent[1].shown = 2

\* exactly true or exactly false
StrictBoolean(v) == v \in {Bool(TRUE), Bool(FALSE)}

\* C20: the needsAttention that is persisted in the Message row and that the
\* escalation decision tests is a strict boolean, whatever the generative
\* service has put in the field.
C20_NeedsAttentionIsBoolean ==
  /\ \A k \in 1..Len(rq.inserts) : StrictBoolean(rq.inserts[k].needs_landlord_attention)
  /\ rq.pc \in {"persisting", "escalating", "replying"} => StrictBoolean(rq.needsAttention)

\* the four categories, under their English and their Spanish names
CategoryEnum ==
  { Str("URGENT"), Str("MAINTENANCE"), Str("PAYMENT"), Str("INQUIRY"),
    Str("URGENTE"), Str("MANTENIMIENTO"), Str("PAGO"), Str("CONSULTA") }

\* C21: the category of every incoming Message row a request inserts is one of
\* the four categories of the enum, whatever the completion and the fallback
\* branch.
C21_CategoryInEnum ==
  \A k \in 1..Len(rq.inserts) : rq.inserts[k].category \in CategoryEnum

\* the follow-up sends attempted for request n
FollowUpsOf(n) == { k \in 1..Len(outbox) : outbox[k].req = n }

\* the rows of one direction
RowsOf(dir) == SelectSeq(messages, LAMBDA m : m.direction = dir)

\* C22: the follow-up runs detached from its request. It is set and sent only
\* after the synchronous reply of its request, it is attempted at most once per
\* inbound message, and a failure of its send or of its insert is only logged:
\* the request keeps its single reply, there are no more outgoing rows than
\* successful sends, and a step of a timer changes neither the request nor the
\* rows stored before.
C22_FollowUpDetached ==
  /\ [] /\ \A n \in 1..MaxRequests : Cardinality(FollowUpsOf(n)) <= 1
        /\ \A k \in 1..Len(outbox) :
              outbox[k].req < nreq \/ (rq.pc = "done" /\ Len(rq.replies) = 1)
        /\ \A i \in 1..Len(timers) :
              timers[i].req < nreq \/ (rq.pc = "done" /\ Len(rq.replies) = 1)
        /\ Len(RowsOf("outgoing"))
             <= Cardinality({ k \in 1..Len(outbox) : outbox[k].result = "ok" })
  /\ [][ (outbox' # outbox \/ Len(timers') < Len(timers))
           => /\ rq' = rq
              /\ Len(messages') >= Len(messages)
              /\ SubSeq(messages', 1, Len(messages)) = messages
              /\ RowsOf("incoming")' = RowsOf("incoming") ]_vars

\* a follow-up whose send failed: one reply, the incoming row, no outgoing row,
\* and the timer is gone
C22_Witness ==
  /\ Len(outbox) = 1
  /\ outbox[1].result = "throw"
  /\ timers = << >>
  /\ Len(rq.replies) = 1
  /\ Len(RowsOf("incoming")) = 1
  /\ Len(RowsOf("outgoing")) = 0

\* the values of invocation r are its own: the tenant is the one its own sender
\* resolves to, the history is that tenant's, the three results are those of
\* its own generative call on its own message, the row and the reply carry them
OwnValues(r) ==
  /\ r.tenant # NoTenant =>
        /\ \E k \in 1..Len(r.cands) : r.cands[k] = r.tenant.phone
        /\ \A k \in 1..Len(r.recent) : r.recent[k].tenant_id = r.tenant.id
  /\ r.pc \in {"persisting", "escalating", "replying"} =>
        LET g == Generation(variant, r.ai, r.body, r.tenant, r.recent).result
        IN r.aiReply = g.message /\ r.category = g.category
           /\ r.needsAttention = g.needsAttention
  /\ \A k \in 1..Len(r.inserts) :
        r.inserts[k] = Row(r.tenant.id, "incoming", r.body, r.category, r.aiReply,
                           r.needsAttention)
  /\ (r.pc = "done" /\ r.threw = "none" /\ r.tenant # NoTenant) =>
        r.replies = << Send(r.aiReply) >>

\* C23: under any interleaving of two invocations, each one reads and writes
\* rows of the one tenant it resolved only, and its row and its reply carry its
\* own values.
C23_InvocationsIsolated ==
  /\ OwnValues(rq) /\ ~rq.listed
  /\ OwnValues(parked) /\ ~parked.listed

\* C23, without the select of all tenants of the unknown sender path
C23_OwnValuesOnly == OwnValues(rq) /\ OwnValues(parked)

\* C24: the steps of a request with a resolved tenant happen in the order of
\* the handler: the tenant is resolved before the reply is generated, the
\* reply is generated (by the service or by the fallback) before the insert is
\* attempted, the insert is attempted before the escalation send, and the
\* reply is sent last, after the insert attempt and after the escalation was
\* attempted or skipped; nothing of this happens after the reply.
C24_StepsInOrder ==
  [][ rq'.n = rq.n =>
        /\ rq'.tenant # rq.tenant =>
              rq.source = "none" /\ rq.inserts = << >> /\ rq.escalations = << >>
              /\ rq.replies = << >>
        /\ rq'.source # rq.source =>
              rq.tenant # NoTenant /\ rq.inserts = << >> /\ rq.escalations = << >>
              /\ rq.replies = << >>
        /\ Len(rq'.inserts) > Len(rq.inserts) =>
              rq.tenant # NoTenant /\ rq.source # "none" /\ rq.inserts = << >>
              /\ rq.escalations = << >> /\ rq.replies = << >>
        /\ Len(rq'.escalations) > Len(rq.escalations) =>
              Len(rq.inserts) = 1 /\ rq.escalations = << >> /\ rq.replies = << >>
        /\ Len(rq'.replies) > Len(rq.replies) =>
              /\ rq.replies = << >>
              /\ (rq.tenant # NoTenant /\ rq.threw = "none") =>
                    /\ rq.source # "none"
                    /\ Len(rq.inserts) = 1
                    /\ Len(rq.escalations) =
                         IF SendsEscalation(variant, rq.needsAttention, rq.tenant)
                         THEN 1 ELSE 0 ]_vars

\* a request that went through all the steps: generated, inserted, escalated, replied
C24_Witness ==
  /\ Responded
  /\ rq.threw = "none"
  /\ rq.source = "generated"
  /\ Len(rq.inserts) = 1
  /\ Len(rq.escalations) = 1
  /\ Len(rq.replies) = 1

\* urgent and maintenance, under their English and their Spanish names
DispatchCategories ==
  { Str("URGENT"), Str("MAINTENANCE"), Str("URGENTE"), Str("MANTENIMIENTO") }

\* C25: in the handlers with the follow-up, when needsAttention is true and the
\* category is urgent or maintenance, in English or in Spanish, the timer that
\* has run to its end has sent the follow-up to the tenant, and after a
\* successful send there is at most the one outgoing row, with needs-attention
\* false.
C25_FollowUpForUrgent ==
  ( /\ variant \in WithFollowUp
    /\ Responded /\ rq.threw = "none" /\ rq.tenant # NoTenant
    /\ rq.needsAttention = Bool(TRUE)
    /\ rq.category \in DispatchCategories
    /\ timers = << >> )
    => /\ Len(outbox) = 1
       /\ outbox[1].to = rq.phone.str
       /\ Len(RowsOf("outgoing")) <= 1
       /\ \A k \in 1..Len(RowsOf("outgoing")) :
             RowsOf("outgoing")[k].needs_landlord_attention = Bool(FALSE)

\* the rows of tenant tid, in the order of their creation
RowsOfTenant(tid) == SelectSeq(messages, LAMBDA m : m.tenant_id = tid)

\* the lines of the transcript for a sequence of rows: one line for an incoming
\* row, a second one when the row has a reply, none for an outgoing row
Transcript(v, rows) ==
  LET l == ContextLabels(v)
      line[k \in 1..Len(rows)] ==
        IF rows[k].direction # "incoming" THEN ""
        ELSE l.tenant \o "\"" \o rows[k].message_body.str \o "\"\n"
             \o (IF rows[k].ai_response \in {null, undefined, Str("")} THEN ""
                 ELSE l.you \o "\"" \o rows[k].ai_response.str \o "\"\n")
      upto[k \in 0..Len(rows)] == IF k = 0 THEN "" ELSE upto[k - 1] \o line[k]
  IN upto[Len(rows)]

AcceptedReset(i) == resetReqs[i].kind = "POST" /\ resetReqs[i].row # 0

\* C27: of the POST /reset-password requests that present one token, under any
\* interleaving, at most one is accepted and updates the password.
C27_OneResetPerToken ==
  \A i, j \in 1..MaxResets :
     (i # j /\ AcceptedReset(i) /\ AcceptedReset(j))
        => resetReqs[i].token # resetReqs[j].token

C29_StoredReplyIsSentReply ==
  Responded /\ rq.insertResult = "ok" /\ Len(rq.replies) >= 1 =>
    /\ Len(rq.inserts) = 1
    /\ rq.replies[Len(rq.replies)].text = rq.inserts[1].ai_response

\* the three values the request holds after the "Generating Reply" step
Triple == Result(rq.aiReply, rq.category, rq.needsAttention)

\* C30: once the generation step has ended without an exception, the reply
\* text, the category and needsAttention are together the three values of the
\* parsed completion or together the three values of the keyword fallback;
\* the inserted row, the reply, the message to the landlord and the follow-up
\* timer use these same three values.
C30_TripleFromOneSource ==
  rq.source # "none" =>
    /\ \/ /\ rq.source = "generated"
          /\ ~TryThrows(variant, rq.ai)
          /\ Triple = Parsed(variant, rq.ai)
       \/ /\ rq.source = "fallback"
          /\ variant # "part_002"
          /\ TryThrows(variant, rq.ai)
          /\ Triple = Fallback(variant, rq.body.str, rq.tenant, rq.recent)
    /\ \A k \in 1..Len(rq.inserts) :
          /\ rq.inserts[k].ai_response = Triple.message
          /\ rq.inserts[k].category = Triple.category
          /\ rq.inserts[k].needs_landlord_attention = Triple.needsAttention
    /\ Responded /\ rq.threw = "none" => rq.replies = << Send(Triple.message) >>
    /\ Len(rq.escalations) > 0 \/ rq.scheduled > 0 => Truthy(Triple.needsAttention)

\* a completion whose category was read before the try block threw on its
\* missing message: the request stored and answered with the fallback's values
C30_Witness ==
  /\ Responded
  /\ variant \in WithFollowUp
  /\ rq.ai = CompletionNoMessage
  /\ rq.source = "fallback"
  /\ rq.insertResult = "ok"
  /\ rq.category # JSONParse(rq.ai).value.category
  /\ rq.replies = << Send(rq.aiReply) >>
====
